---- MODULE Spec2Model ----
(***************************************************************************)
(* xpyxl: the OpenpyxlEngine (src/src/xpyxl/engines/openpyxl_engine.py)    *)
(* and Workbook.save with its hybrid path (src/src/xpyxl/_workbook.py).    *)
(*                                                                         *)
(* A worksheet is abstracted to its title and to where its cell values,    *)
(* its merge ranges and its cell styles come from (an Origin). A title is  *)
(* a base name plus the counter openpyxl appends when the name is taken.   *)
(* A behaviour is either one OpenpyxlEngine driven by any sequence of      *)
(* calls (pc = "engine"), or one Workbook.save call on a small workbook    *)
(* node with either engine (pc from "start" to "done" or "failed").        *)
(***************************************************************************)
EXTENDS Integers, Sequences, FiniteSets, TLC

\* Bounds of the model.
MaxOps == 4
MaxSheets == 3

\* Sheet names and external sources the inputs are drawn from. Names are
\* compared as openpyxl compares titles: two names of the model are either
\* the same title or different titles.
Names == {"A", "B", "X"}
SourceSheetNames == {"A", "B"}
PathSources == {"p1"}
BytesSources == {"b2"}
StreamSources == {"st"}
Sources == PathSources \cup BytesSources \cup StreamSources

VARIABLES
    E,          \* the OpenpyxlEngine instance
    XW,         \* the XlsxWriterEngine instance: its sheets
    node,       \* Workbook._node.sheets
    engineSel,  \* the engine argument of Workbook.save
    pc,         \* position inside Workbook.save ("engine" under Spec)
    idx,        \* loop index over node
    path,       \* "none" | "standard" | "hybrid"
    mergedWb,   \* the merged_wb object of the hybrid path, when no longer the engine's
    aliased,    \* merged_wb is the engine's _workbook object
    target,     \* the caller's target
    rlog,       \* which engine rendered which declared sheet, in order
    serializer, \* the engine whose save produced the target
    last,       \* the last engine call and its outcome
    built,      \* the engine instances constructed, in order
    req,        \* names requested by the successful create_sheet/copy_sheet calls
    nops,       \* number of engine calls made under Spec
    prev,       \* what an earlier save of the same Workbook produced
    L           \* the layout engine at work on one node

vars == <<E, XW, node, engineSel, pc, idx, path, mergedWb, aliased, target,
          rlog, serializer, built, last, req, nops, prev, L>>

\* What a single save and direct engine calls leave alone.
xvars == <<prev, L>>

----------------------------------------------------------------------------
\* Titles, origins, sheets

Min(a, b) == IF a < b THEN a ELSE b
Max(a, b) == IF a > b THEN a ELSE b

T(name) == [b |-> name, n |-> 0]
NoSheet == [b |-> "<none>", n |-> 0]
Detached == [b |-> "<detached>", n |-> 0]

O(doc, sheet) == [doc |-> doc, sheet |-> sheet]
Blank == O("blank", "")
Written == O("written", "")
DefaultOrigin == O("default", "")

\* The column widths and row heights of a sheet, for the columns and rows
\* given a size (none: all at their defaults), the fill no fill_background
\* has set, and the cells no write_cell has styled.
NoDims == [width |-> [c \in {} |-> 0], height |-> [r \in {} |-> 0]]

\* A size table with one entry set.
Sized(dim, i, size) == [j \in DOMAIN dim \cup {i} |-> IF j = i THEN size ELSE dim[j]]
NoFill == [color |-> "", id |-> 0]
NoCells == [c \in {} |-> 0]

Sheet(title, vals, merges, style) ==
    [title |-> title, vals |-> vals, merges |-> merges, style |-> style,
     dims |-> NoDims, fill |-> NoFill, cellstyle |-> NoCells]

TitlesOf(wb) == {wb[i].title : i \in 1..Len(wb)}
TitleSeq(wb) == [i \in 1..Len(wb) |-> wb[i].title]
IndexOf(wb, title) == CHOOSE i \in 1..Len(wb) : wb[i].title = title
Get(wb, title) == wb[IndexOf(wb, title)]
RemoveAt(s, i) == [j \in 1..(Len(s) - 1) |-> IF j < i THEN s[j] ELSE s[j + 1]]
InsertAt(s, i, x) ==
    [j \in 1..(Len(s) + 1) |-> IF j < i THEN s[j] ELSE IF j = i THEN x ELSE s[j - 1]]
Distinct(s) == \A i, j \in 1..Len(s) : i # j => s[i] # s[j]

\* The documents behind the sources: p1 holds sheets A and B, b2 holds A, st holds B.
SourceSheets(src) ==
    IF src = "p1" THEN <<"A", "B">> ELSE IF src = "b2" THEN <<"A">> ELSE <<"B">>

SourceBook(src) ==
    [i \in 1..Len(SourceSheets(src)) |->
        Sheet(T(SourceSheets(src)[i]), O(src, SourceSheets(src)[i]),
              O(src, SourceSheets(src)[i]), O(src, SourceSheets(src)[i]))]

\* The active-sheet index stored in the source documents, counted from 0:
\* p1 was last saved with its second sheet selected.
SourceActive(src) == IF src = "p1" THEN 1 ELSE 0

\* A document written out, and read back.
NoFile == [written |-> FALSE, sheets |-> <<>>]
Serialize(wb) == [written |-> TRUE, sheets |-> wb, active |-> 0]
load_workbook(bytes) == bytes.sheets

\* The index written as it stands in the workbook object.
get_active_sheet_stale(wb, active) == active

\* The active tab openpyxl's writer stores: the workbook's index when it
\* refers to a sheet; otherwise none is stored, which reads as the first
\* sheet.
get_active_sheet(wb, active) == IF active < Len(wb) THEN active ELSE 0

----------------------------------------------------------------------------
\* openpyxl's Workbook, as the engine uses it

MaxN(S) == IF S = {} THEN 0 ELSE CHOOSE m \in S : \A k \in S : k <= m

\* A taken title gets the next counter appended; a free one is kept.
avoid_duplicate_name(titles, name) ==
    IF T(name) \in titles
    THEN [b |-> name, n |-> 1 + MaxN({t.n : t \in {u \in titles : u.b = name}})]
    ELSE T(name)

LibNewWorkbook == <<Sheet(T("Sheet"), DefaultOrigin, DefaultOrigin, DefaultOrigin)>>

LibCreateSheet(wb, name) ==
    Append(wb, Sheet(avoid_duplicate_name(TitlesOf(wb), name), Blank, Blank, Blank))

LibActive(wb) == IF Len(wb) > 0 THEN wb[1].title ELSE NoSheet

LibRemove(wb, title) == SelectSeq(wb, LAMBDA ws : ws.title # title)

\* Workbook.copy_worksheet followed by the assignment of the new title.
LibCopyWorksheet(wb, sourceTitle, name) ==
    LET src == Get(wb, sourceTitle)
    IN  Append(wb, [src EXCEPT !.title = avoid_duplicate_name(TitlesOf(wb), name)])

----------------------------------------------------------------------------
\* OpenpyxlEngine

None == <<"none", "">>

\* The workbook of a new engine: openpyxl's default sheet is removed.
NewEngineWorkbook ==
    IF LibActive(LibNewWorkbook) # NoSheet
    THEN LibRemove(LibNewWorkbook, LibActive(LibNewWorkbook))
    ELSE LibNewWorkbook

\* Cell styles as write_cell receives them (EffectiveStyle): "" is an unset
\* attribute, <<>> an indent of None. Boxed leaves the border colour to the
\* fallback colour.
BaseStyle ==
    [font_name |-> "Calibri", font_size |-> "11", bold |-> FALSE, italic |-> FALSE,
     text_color |-> "black", fill_color |-> "", horizontal_align |-> "",
     vertical_align |-> "", indent |-> <<>>, wrap_text |-> FALSE,
     shrink_to_fit |-> FALSE, number_format |-> "", border |-> "",
     border_color |-> "", border_top |-> FALSE, border_bottom |-> FALSE,
     border_left |-> FALSE, border_right |-> FALSE]
Plain == BaseStyle
Boxed == [BaseStyle EXCEPT !.bold = TRUE, !.fill_color = "red", !.border = "thin"]
BoxedRed == [Boxed EXCEPT !.border_color = "red"]
Styles == {Plain, Boxed, BoxedRed}

\* The per-edge flags of a style, as <<top, bottom, left, right>>, and the
\* styles write_cell is given where borders and alignments are looked at:
\* with and without a border style, with and without a border colour, with
\* no edge flagged, one, two, or all four; and styles that differ from the
\* base style in one other attribute.
EdgeFlags ==
    {<<FALSE, FALSE, FALSE, FALSE>>, <<TRUE, FALSE, FALSE, FALSE>>,
     <<FALSE, FALSE, TRUE, TRUE>>, <<TRUE, TRUE, TRUE, TRUE>>}

WithEdges(style, f) ==
    [style EXCEPT !.border_top = f[1], !.border_bottom = f[2],
                  !.border_left = f[3], !.border_right = f[4]]

BorderStyles ==
    {WithEdges([BaseStyle EXCEPT !.border = b, !.border_color = c], f) :
        b \in {"", "thin"}, c \in {"", "red"}, f \in EdgeFlags}

OtherStyles ==
    {[BaseStyle EXCEPT !.wrap_text = TRUE],
     [BaseStyle EXCEPT !.horizontal_align = "center", !.indent = <<2>>],
     [BaseStyle EXCEPT !.number_format = "0.00", !.fill_color = "gray"]}

EffectiveStyles == Styles \cup BorderStyles \cup OtherStyles
FallbackColors == {"red", "gray"}
Colors == {"black", "red", "gray"}
Cells == {1, 2}

\* The key with the fallback colour left out: the style's own border colour.
cache_key_own_color(effective, border_fallback_color) ==
    <<effective.font_name, effective.font_size, effective.bold, effective.italic,
      effective.text_color, effective.fill_color, effective.horizontal_align,
      effective.vertical_align, effective.indent, effective.wrap_text,
      effective.shrink_to_fit, effective.number_format, effective.border,
      effective.border_color,
      effective.border_top, effective.border_bottom, effective.border_left,
      effective.border_right>>

\* The key of the style cache: the attributes, with the border colour that
\* takes effect when there is a border.
cache_key(effective, border_fallback_color) ==
    <<effective.font_name, effective.font_size, effective.bold, effective.italic,
      effective.text_color, effective.fill_color, effective.horizontal_align,
      effective.vertical_align, effective.indent, effective.wrap_text,
      effective.shrink_to_fit, effective.number_format, effective.border,
      IF effective.border # ""
      THEN (IF effective.border_color # "" THEN effective.border_color
            ELSE border_fallback_color)
      ELSE "",
      effective.border_top, effective.border_bottom, effective.border_left,
      effective.border_right>>

StyleKeys ==
    {cache_key(st, fb) : st \in EffectiveStyles, fb \in FallbackColors}
        \cup {cache_key_own_color(st, fb) : st \in EffectiveStyles, fb \in FallbackColors}

\* The source workbook object the latest copy_sheet loaded (loaded), and
\* whether the engine's own workbook is that very object (alias): what the
\* engine does to its workbook then happens to the loaded source.
NotLoaded == [id |-> "", wb |-> <<>>, active |-> 0]
Sync(e) == IF e.alias THEN [e EXCEPT !.loaded.wb = e.wb] ELSE e

\* The engine wrapped around a workbook: no current sheet, no template
\* state, empty caches. nloads, nstyle, nconv and nfill count what the
\* instance has loaded, constructed and converted so far. active is the
\* active-sheet index of the workbook object, 0 in every workbook wrapped
\* (a new one, or one loaded from xlsxwriter's output).
from_workbook(workbook) ==
    [wb |-> workbook, cur |-> NoSheet, tmpl |-> FALSE, tid |-> None,
     keep |-> {}, nloads |-> [s \in Sources |-> 0],
     style_cache |-> {}, color_cache |-> {}, letter_cache |-> {},
     nstyle |-> [k \in {} |-> 0], nconv |-> [c \in Colors |-> 0],
     nfill |-> 0, loaded |-> NotLoaded, alias |-> FALSE, active |-> 0]

NewEngine == from_workbook(NewEngineWorkbook)

Ok(e) == [e |-> e, res |-> "ok"]
Raise(e, what) == [e |-> e, res |-> what]

create_sheet(e, name) ==
    LET wb2 == LibCreateSheet(e.wb, name)
    IN  Sync([e EXCEPT !.wb = wb2,
                       !.cur = wb2[Len(wb2)].title,
                       !.keep = IF e.tmpl THEN e.keep \cup {T(name)} ELSE e.keep])

\* The colour is converted on its first use only.
_get_cached_color(e, color) ==
    IF color \in e.color_cache THEN e
    ELSE [e EXCEPT !.color_cache = @ \cup {color}, !.nconv[color] = @ + 1]

\* The colour conversion: the ARGB string of a colour.
to_argb(color) == <<"argb", color>>

\* None, where the code builds no object.
NoObject == [none |-> TRUE]

\* Every side drawn whatever the per-edge flags.
build_side_always(effective, border_color_argb, enabled) ==
    [style |-> effective.border, color |-> border_color_argb]

\* One side of a border: drawn in the border style and colour, or None.
build_side(effective, border_color_argb, enabled) ==
    IF ~enabled THEN NoObject
    ELSE [style |-> effective.border, color |-> border_color_argb]

\* The Font, PatternFill, Alignment and Border objects and the number
\* format constructed for a style and a fallback colour.
build_styles(effective, border_fallback_color) ==
    LET font == [name |-> effective.font_name, size |-> effective.font_size,
                 bold |-> effective.bold, italic |-> effective.italic,
                 color |-> to_argb(effective.text_color)]
        fill == IF effective.fill_color # ""
                THEN [fill_type |-> "solid",
                      start_color |-> to_argb(effective.fill_color),
                      end_color |-> to_argb(effective.fill_color)]
                ELSE NoObject
        align_kwargs ==
            (IF effective.horizontal_align # "" THEN {"horizontal"} ELSE {})
            \cup (IF effective.vertical_align # "" THEN {"vertical"} ELSE {})
            \cup (IF effective.indent # <<>> THEN {"indent"} ELSE {})
            \cup (IF effective.wrap_text THEN {"wrap_text"} ELSE {})
            \cup (IF effective.shrink_to_fit THEN {"shrink_to_fit"} ELSE {})
        alignment ==
            IF align_kwargs # {}
            THEN [horizontal |-> effective.horizontal_align,
                  vertical |-> IF "vertical" \in align_kwargs
                               THEN effective.vertical_align ELSE "bottom",
                  indent |-> effective.indent,
                  wrap_text |-> effective.wrap_text,
                  shrink_to_fit |-> effective.shrink_to_fit]
            ELSE IF effective.wrap_text \/ effective.shrink_to_fit
            THEN [horizontal |-> "", vertical |-> "", indent |-> <<>>,
                  wrap_text |-> effective.wrap_text,
                  shrink_to_fit |-> effective.shrink_to_fit]
            ELSE NoObject
        border_color == IF effective.border_color # "" THEN effective.border_color
                        ELSE border_fallback_color
        explicit == \/ effective.border_top \/ effective.border_bottom
                    \/ effective.border_left \/ effective.border_right
        border ==
            IF effective.border # ""
            THEN IF explicit
                 THEN [left |-> build_side(effective, to_argb(border_color),
                                           effective.border_left),
                       right |-> build_side(effective, to_argb(border_color),
                                            effective.border_right),
                       top |-> build_side(effective, to_argb(border_color),
                                          effective.border_top),
                       bottom |-> build_side(effective, to_argb(border_color),
                                             effective.border_bottom)]
                 ELSE [left |-> build_side(effective, to_argb(border_color), TRUE),
                       right |-> build_side(effective, to_argb(border_color), TRUE),
                       top |-> build_side(effective, to_argb(border_color), TRUE),
                       bottom |-> build_side(effective, to_argb(border_color), TRUE)]
            ELSE NoObject
    IN  [font |-> font, fill |-> fill, alignment |-> alignment, border |-> border,
         number_format |-> effective.number_format]

\* How many times the style objects of a key were constructed, and the
\* count after one more construction.
Constructions(e, key) == IF key \in DOMAIN e.nstyle THEN e.nstyle[key] ELSE 0

Constructed(e, key) ==
    [k \in DOMAIN e.nstyle \cup {key} |->
        IF k = key THEN Constructions(e, key) + 1 ELSE e.nstyle[k]]

\* The style objects of one key, as the n-th construction for that key made them.
StyleObjects(key, n, objects) == [key |-> key, id |-> n, objects |-> objects]

\* The style objects built anew on every call, the cache never consulted.
_get_cached_styles_uncached(e, effective, border_fallback_color) ==
    LET key == cache_key(effective, border_fallback_color)
        styles == [key |-> key, id |-> Constructions(e, key) + 1,
                   objects |-> build_styles(effective, border_fallback_color)]
    IN  [e |-> [e EXCEPT !.nstyle = Constructed(e, key),
                         !.style_cache = @ \cup {styles}],
         styles |-> styles]

\* The style objects for a style: those cached under its key, or new ones,
\* built from the converted colours and cached.
_get_cached_styles(e, effective, border_fallback_color) ==
    LET key == cache_key(effective, border_fallback_color)
    IN  IF \E o \in e.style_cache : o.key = key
        THEN [e |-> e, styles |-> CHOOSE o \in e.style_cache : o.key = key]
        ELSE LET e1 == _get_cached_color(e, effective.text_color)
                 e2 == IF effective.fill_color # ""
                       THEN _get_cached_color(e1, effective.fill_color) ELSE e1
                 e3 == IF effective.border # ""
                       THEN _get_cached_color(e2,
                               IF effective.border_color # ""
                               THEN effective.border_color
                               ELSE border_fallback_color)
                       ELSE e2
                 styles == StyleObjects(key, Constructions(e, key) + 1,
                                        build_styles(effective, border_fallback_color))
             IN  [e |-> [e3 EXCEPT !.nstyle = Constructed(e, key),
                                   !.style_cache = @ \cup {styles}],
                  styles |-> styles]

\* write_cell sets the value and the style of a cell of the current sheet.
write_cell(e, cell, value, style, border_fallback_color) ==
    IF e.cur = NoSheet THEN Raise(e, "NoSheet")
    ELSE LET r == _get_cached_styles(e, style, border_fallback_color)
         IN  IF e.cur = Detached THEN Ok(r.e)
             ELSE LET i == IndexOf(e.wb, e.cur)
                      cs == e.wb[i].cellstyle
                  IN  Ok([r.e EXCEPT
                            !.wb[i].vals = value,
                            !.wb[i].style = value,
                            !.wb[i].cellstyle =
                                [c \in DOMAIN cs \cup {cell} |->
                                    IF c = cell THEN r.styles ELSE cs[c]]])

\* Narrower columns are widened to the minimum width.
MinColumnWidth == 8

\* The width set as requested, however narrow.
set_column_width_as_requested(e, col, width) ==
    IF e.cur = NoSheet THEN Raise(e, "NoSheet")
    ELSE LET e1 == [e EXCEPT !.letter_cache = @ \cup {col}]
         IN  IF e.cur = Detached THEN Ok(e1)
             ELSE Ok([e1 EXCEPT !.wb[IndexOf(e.wb, e.cur)].dims.width =
                                    Sized(@, col, width)])

set_column_width(e, col, width) ==
    IF e.cur = NoSheet THEN Raise(e, "NoSheet")
    ELSE LET e1 == [e EXCEPT !.letter_cache = @ \cup {col}]
         IN  IF e.cur = Detached THEN Ok(e1)
             ELSE Ok([e1 EXCEPT !.wb[IndexOf(e.wb, e.cur)].dims.width =
                                    Sized(@, col, Max(width, MinColumnWidth))])

\* The height check skipped when the workbook has a sheet to fall back on.
set_row_height_on_first(e, row, height) ==
    IF e.cur \in {NoSheet, Detached}
    THEN IF Len(e.wb) = 0 THEN Raise(e, "NoSheet")
         ELSE Ok([e EXCEPT !.wb[1].dims.height = Sized(@, row, height)])
    ELSE Ok([e EXCEPT !.wb[IndexOf(e.wb, e.cur)].dims.height = Sized(@, row, height)])

set_row_height(e, row, height) ==
    IF e.cur = NoSheet THEN Raise(e, "NoSheet")
    ELSE IF e.cur = Detached THEN Ok(e)
    ELSE Ok([e EXCEPT !.wb[IndexOf(e.wb, e.cur)].dims.height = Sized(@, row, height)])

\* One new fill object per call, set on every cell of the range.
fill_background(e, color) ==
    IF e.cur = NoSheet THEN Raise(e, "NoSheet")
    ELSE LET e1 == [_get_cached_color(e, color) EXCEPT !.nfill = @ + 1]
         IN  IF e.cur = Detached THEN Ok(e1)
             ELSE Ok([e1 EXCEPT !.wb[IndexOf(e.wb, e.cur)].fill =
                                    [color |-> color, id |-> e1.nfill]])

_deep_copy_workbook(workbook) == load_workbook(Serialize(workbook))

\* The clone taking the cell styles along with the values and the merges.
_clone_sheet_contents_styled(source_ws, target_ws) ==
    [target_ws EXCEPT !.vals = source_ws.vals, !.merges = source_ws.merges,
                      !.dims = source_ws.dims, !.style = source_ws.style]

\* Values, merge ranges, column widths and row heights are copied; cell
\* styles are not.
_clone_sheet_contents(source_ws, target_ws) ==
    [target_ws EXCEPT !.vals = source_ws.vals, !.merges = source_ws.merges,
                      !.dims = source_ws.dims]

_source_identity(source) ==
    IF source \in PathSources THEN <<"path", source>>
    ELSE IF source \in BytesSources THEN <<"bytes", source>>
    ELSE None

\* Every call reads the source document anew; nloads counts the reads.
_load_source_workbook(e, source) ==
    [e |-> [e EXCEPT !.nloads[source] = @ + 1,
                     !.loaded = [id |-> source, wb |-> SourceBook(source),
                                 active |-> SourceActive(source)],
                     !.alias = FALSE],
     wb |-> SourceBook(source),
     identity |-> _source_identity(source)]

\* The check of the destination name left out.
_ensure_sheet_name_available_unchecked(e, name) == TRUE

_ensure_sheet_name_available(e, name) == T(name) \notin TitlesOf(e.wb)

\* The template base started whatever sheets the workbook has.
_maybe_start_from_template_nonempty(e, source_wb, source_identity) ==
    IF e.tmpl THEN e
    ELSE [e EXCEPT !.tmpl = TRUE, !.tid = source_identity, !.keep = {},
                   !.wb = _deep_copy_workbook(source_wb), !.alias = FALSE,
                   !.active = e.loaded.active, !.cur = NoSheet]

\* The template base taken to be the loaded source workbook itself.
_maybe_start_from_template_shared(e, source_wb, source_identity) ==
    IF e.tmpl THEN e
    ELSE IF TitlesOf(e.wb) # {} THEN e
    ELSE [e EXCEPT !.tmpl = TRUE, !.tid = source_identity, !.keep = {},
                   !.wb = source_wb, !.alias = TRUE, !.active = e.loaded.active,
                   !.cur = NoSheet]

\* The template base is a deep copy of the loaded source: an object of its
\* own, with the active-sheet index of the source.
_maybe_start_from_template(e, source_wb, source_identity) ==
    IF e.tmpl THEN e
    ELSE IF TitlesOf(e.wb) # {} THEN e
    ELSE [e EXCEPT !.tmpl = TRUE, !.tid = source_identity, !.keep = {},
                   !.wb = _deep_copy_workbook(source_wb), !.alias = FALSE,
                   !.active = e.loaded.active, !.cur = NoSheet]

\* The source identities never compared: any template base that has the
\* name gives the sheet.
_resolve_copy_source_sheet_any_source(e, source_identity, sheet_name) ==
    /\ e.tmpl
    /\ T(sheet_name) \in TitlesOf(e.wb)

\* TRUE when the sheet to copy is taken from the engine's own workbook.
_resolve_copy_source_sheet(e, source_identity, sheet_name) ==
    /\ e.tmpl
    /\ e.tid # None
    /\ e.tid = source_identity
    /\ T(sheet_name) \in TitlesOf(e.wb)

\* The template base started before the two checks are made.
copy_sheet_template_first(e, source, sheet_name, dest_name) ==
    LET ld == _load_source_workbook(e, source)
        e2 == _maybe_start_from_template(ld.e, ld.wb, ld.identity)
    IN  IF T(sheet_name) \notin TitlesOf(ld.wb) THEN Raise(e2, "NotFound")
        ELSE IF ~_ensure_sheet_name_available(e2, dest_name)
        THEN Raise(e2, "NameConflict")
        ELSE
          LET wb3 == IF _resolve_copy_source_sheet(e2, ld.identity, sheet_name)
                     THEN LibCopyWorksheet(e2.wb, T(sheet_name), dest_name)
                     ELSE LET wb2 == LibCreateSheet(e2.wb, dest_name)
                          IN  [wb2 EXCEPT ![Len(wb2)] =
                                 _clone_sheet_contents(Get(ld.wb, T(sheet_name)), @)]
          IN  Ok(Sync([e2 EXCEPT !.wb = wb3,
                                 !.cur = wb3[Len(wb3)].title,
                                 !.keep = IF e2.tmpl THEN e2.keep \cup {T(dest_name)}
                                          ELSE e2.keep]))

copy_sheet(e, source, sheet_name, dest_name) ==
    LET ld == _load_source_workbook(e, source)
    IN  IF T(sheet_name) \notin TitlesOf(ld.wb) THEN Raise(ld.e, "NotFound")
        ELSE IF ~_ensure_sheet_name_available(ld.e, dest_name)
        THEN Raise(ld.e, "NameConflict")
        ELSE
          LET e2 == _maybe_start_from_template(ld.e, ld.wb, ld.identity)
              wb3 == IF _resolve_copy_source_sheet(e2, ld.identity, sheet_name)
                     THEN LibCopyWorksheet(e2.wb, T(sheet_name), dest_name)
                     ELSE LET wb2 == LibCreateSheet(e2.wb, dest_name)
                          IN  [wb2 EXCEPT ![Len(wb2)] =
                                 _clone_sheet_contents(Get(ld.wb, T(sheet_name)), @)]
          IN  Ok(Sync([e2 EXCEPT !.wb = wb3,
                                 !.cur = wb3[Len(wb3)].title,
                                 !.keep = IF e2.tmpl THEN e2.keep \cup {T(dest_name)}
                                          ELSE e2.keep]))

\* The sheets save leaves in the workbook: a template base is pruned to the
\* requested names.
Pruned(e) ==
    IF e.tmpl /\ e.keep # {}
    THEN SelectSeq(e.wb, LAMBDA ws : ws.title \in e.keep)
    ELSE e.wb

\* openpyxl refuses to write a workbook without sheets.
save(e) ==
    LET wb2 == Pruned(e)
        e2 == Sync([e EXCEPT !.wb = wb2,
                             !.cur = IF e.cur \in TitlesOf(e.wb) \ TitlesOf(wb2)
                                     THEN Detached ELSE e.cur])
    IN  IF Len(wb2) = 0
        THEN [e |-> e2, res |-> "NoVisibleSheet", doc |-> NoFile]
        ELSE [e |-> e2, res |-> "ok",
              doc |-> [Serialize(wb2) EXCEPT !.active = get_active_sheet(wb2, e2.active)]]

----------------------------------------------------------------------------
\* XlsxWriterEngine and render_sheet

\* The fast backend refuses a second sheet of the same name.
xw_create_sheet(x, name) ==
    IF T(name) \in TitlesOf(x) THEN [x |-> x, res |-> "DuplicateName"]
    ELSE [x |-> Append(x, Sheet(T(name), O("fresh", name), Blank, O("fresh", name))),
          res |-> "ok"]

\* The fast backend cannot copy a sheet.
xw_copy_sheet(x, source, sheet_name, dest_name) ==
    [x |-> x, res |-> "BackendCapabilityError"]

\* render_sheet on the xlsxwriter engine.
xw_render_sheet(x, sheet) ==
    IF sheet.kind = "import"
    THEN xw_copy_sheet(x, sheet.source, sheet.source_sheet, sheet.name)
    ELSE xw_create_sheet(x, sheet.name)

RECURSIVE xw_render_all(_, _)
xw_render_all(x, sheets) ==
    IF Len(sheets) = 0 THEN [x |-> x, res |-> "ok"]
    ELSE LET r == xw_render_sheet(x, Head(sheets))
         IN  IF r.res # "ok" THEN r ELSE xw_render_all(r.x, Tail(sheets))

\* render_sheet on the openpyxl engine: a declared sheet is created and
\* written, an imported one is copied.
render_sheet(e, sheet) ==
    IF sheet.kind = "import"
    THEN copy_sheet(e, sheet.source, sheet.source_sheet, sheet.name)
    ELSE write_cell(create_sheet(e, sheet.name), 1, O("fresh", sheet.name), Plain,
                    "gray")

----------------------------------------------------------------------------
\* Workbook

SheetNode(name) == [kind |-> "fresh", name |-> name, source |-> "", source_sheet |-> ""]
ImportedSheetNode(name, source, source_sheet) ==
    [kind |-> "import", name |-> name, source |-> source, source_sheet |-> source_sheet]

NodeNames(nd) == [i \in 1..Len(nd) |-> nd[i].name]

\* all() where the code has any().
_has_imported_sheets_all(nd) == \A i \in 1..Len(nd) : nd[i].kind = "import"

\* Only the first sheet looked at.
_has_imported_sheets_first(nd) == Len(nd) > 0 /\ nd[1].kind = "import"

_has_imported_sheets(nd) == \E i \in 1..Len(nd) : nd[i].kind = "import"

\* The loop with the indices of the moved slice left stale.
RECURSIVE ReorderLoopStale(_, _, _, _, _)
ReorderLoopStale(sheets, title_to_index, expected_order, k, insert_at) ==
    IF k > Len(expected_order) THEN sheets
    ELSE LET title == T(expected_order[k])
         IN  IF title \notin DOMAIN title_to_index
             THEN ReorderLoopStale(sheets, title_to_index, expected_order, k + 1,
                                   insert_at)
             ELSE LET i == title_to_index[title]
                  IN  IF i # insert_at
                      THEN LET popped == RemoveAt(sheets, i)
                               moved == InsertAt(popped, Min(insert_at, Len(popped) + 1),
                                                 sheets[i])
                           IN  ReorderLoopStale(moved, title_to_index, expected_order,
                                                k + 1, insert_at + 1)
                      ELSE ReorderLoopStale(sheets, title_to_index, expected_order,
                                            k + 1, insert_at + 1)

\* The loop of _reorder_sheets over expected_order[k..], positions counted from 1.
RECURSIVE ReorderLoop(_, _, _, _, _)
ReorderLoop(sheets, title_to_index, expected_order, k, insert_at) ==
    IF k > Len(expected_order) THEN sheets
    ELSE LET title == T(expected_order[k])
         IN  IF title \notin DOMAIN title_to_index
             THEN ReorderLoop(sheets, title_to_index, expected_order, k + 1, insert_at)
             ELSE LET i == title_to_index[title]
                  IN  IF i # insert_at
                      THEN LET popped == RemoveAt(sheets, i)
                               moved == InsertAt(popped, Min(insert_at, Len(popped) + 1),
                                                 sheets[i])
                               start == Min(insert_at, i)
                               end == Min(Max(insert_at, i), Len(moved))
                               t2i == [t \in DOMAIN title_to_index |->
                                        IF \E j \in start..end : moved[j].title = t
                                        THEN CHOOSE j \in start..end : moved[j].title = t
                                        ELSE title_to_index[t]]
                           IN  ReorderLoop(moved, t2i, expected_order, k + 1, insert_at + 1)
                      ELSE ReorderLoop(sheets, title_to_index, expected_order, k + 1,
                                       insert_at + 1)

\* The declared sheets removed and added again at the end, in declared order.
_reorder_sheets_readd(nd, workbook) ==
    LET declared == {T(nd[i].name) : i \in 1..Len(nd)}
        named == SelectSeq([i \in 1..Len(nd) |-> T(nd[i].name)],
                           LAMBDA t : t \in TitlesOf(workbook))
    IN  SelectSeq(workbook, LAMBDA ws : ws.title \notin declared)
        \o [i \in 1..Len(named) |-> Get(workbook, named[i])]

_reorder_sheets(nd, workbook) ==
    ReorderLoop(workbook, [t \in TitlesOf(workbook) |-> IndexOf(workbook, t)],
                NodeNames(nd), 1, 1)

\* The end of _reorder_sheets: workbook.active = 0 when there are sheets.
_reorder_active(workbook, active) == IF Len(workbook) > 0 THEN 0 ELSE active

\* The new workbook with openpyxl's default sheet left in.
EmptyMergedWb_DefaultKept == LibNewWorkbook

\* The workbook the hybrid path starts from when no sheet is declared fresh.
EmptyMergedWb ==
    IF LibActive(LibNewWorkbook) # NoSheet
    THEN LibRemove(LibNewWorkbook, LibActive(LibNewWorkbook))
    ELSE LibNewWorkbook

\* Only the declared sheets that come before the first import.
FreshNodes_leading(nd) ==
    IF \E i \in 1..Len(nd) : nd[i].kind = "import"
    THEN SubSeq(nd, 1, (CHOOSE i \in 1..Len(nd) :
                           /\ nd[i].kind = "import"
                           /\ \A j \in 1..(i - 1) : nd[j].kind = "fresh") - 1)
    ELSE nd

FreshNodes(nd) == SelectSeq(nd, LAMBDA s : s.kind = "fresh")

----------------------------------------------------------------------------
\* One OpenpyxlEngine, any sequence of calls

NoCall == [op |-> "none", source |-> "", sheet |-> "", name |-> "", res |-> "ok",
           pre |-> "empty", absent |-> FALSE, taken |-> FALSE]

\* What the destination looked like when the call was made.
Pre(e) == IF e.tmpl THEN "template" ELSE IF Len(e.wb) = 0 THEN "empty" ELSE "sheets"

\* A call as the caller sees it: its arguments, its outcome, and for a sheet
\* name whether the source lacks it and whether the destination has it.
Call(op, source, sheet, name, res, pre) ==
    [op |-> op, source |-> source, sheet |-> sheet, name |-> name, res |-> res,
     pre |-> pre,
     absent |-> (op = "copy_sheet" /\ \A i \in 1..Len(SourceSheets(source)) :
                                         SourceSheets(source)[i] # sheet),
     taken |-> (op \in {"copy_sheet", "create_sheet"}
                /\ \E i \in 1..Len(E.wb) : E.wb[i].title = T(name))]

\* No earlier save, and no layout at work.
NoPrev == [n |-> 0]
NoLayout == [kind |-> "none"]

\* The call record of a copy_sheet that reached the xlsxwriter engine.
XwCopyCall == [NoCall EXCEPT !.op = "xw_copy_sheet", !.res = "BackendCapabilityError"]

SaveVarsIdle == <<XW, node, engineSel, pc, idx, path, mergedWb, aliased, rlog,
                  serializer, built>>

InitEngine ==
    /\ E = NewEngine
    /\ XW = <<>>
    /\ node = <<>>
    /\ engineSel = "openpyxl"
    /\ pc = "engine"
    /\ idx = 0
    /\ path = "none"
    /\ mergedWb = <<>>
    /\ aliased = FALSE
    /\ target = NoFile
    /\ rlog = <<>>
    /\ serializer = "none"
    /\ built = <<"openpyxl">>
    /\ last = NoCall
    /\ req = <<>>
    /\ nops = 0
    /\ prev = NoPrev
    /\ L = NoLayout

CreateSheet(name) ==
    /\ UNCHANGED xvars
    /\ pc = "engine" /\ nops < MaxOps
    /\ E' = create_sheet(E, name)
    /\ last' = Call("create_sheet", "", "", name, "ok", Pre(E))
    /\ req' = Append(req, name)
    /\ nops' = nops + 1
    /\ UNCHANGED <<target, SaveVarsIdle>>

CopySheet(source, sheet_name, dest_name) ==
    /\ UNCHANGED xvars
    /\ pc = "engine" /\ nops < MaxOps
    /\ LET r == copy_sheet(E, source, sheet_name, dest_name)
       IN  /\ E' = r.e
           /\ last' = Call("copy_sheet", source, sheet_name, dest_name, r.res, Pre(E))
           /\ req' = IF r.res = "ok" THEN Append(req, dest_name) ELSE req
    /\ nops' = nops + 1
    /\ UNCHANGED <<target, SaveVarsIdle>>

WriteCell ==
    /\ UNCHANGED xvars
    /\ pc = "engine" /\ nops < MaxOps
    /\ LET r == write_cell(E, 1, Written, Plain, "gray")
       IN  /\ E' = r.e
           /\ last' = Call("write_cell", "", "", "", r.res, Pre(E))
    /\ nops' = nops + 1
    /\ UNCHANGED <<target, req, SaveVarsIdle>>

EngineSave ==
    /\ UNCHANGED xvars
    /\ pc = "engine" /\ nops < MaxOps
    /\ LET r == save(E)
       IN  /\ E' = r.e
           /\ target' = IF r.res = "ok" THEN r.doc ELSE target
           /\ last' = Call("save", "", "", "", r.res,
                           IF target.written THEN "saved" ELSE "unsaved")
    /\ nops' = nops + 1
    /\ UNCHANGED <<req, SaveVarsIdle>>

NextEngine ==
    \/ \E name \in Names : CreateSheet(name)
    \/ \E source \in Sources, sheet_name \in SourceSheetNames, dest_name \in Names :
          CopySheet(source, sheet_name, dest_name)
    \/ WriteCell
    \/ EngineSave


----------------------------------------------------------------------------
\* One OpenpyxlEngine under cell-level calls as well: it is either new or
\* wrapped around a workbook that already has a sheet (from_workbook).

Widths == {5, 12}
Heights == {20}

\* The workbook from_workbook wraps: what xlsxwriter wrote for one sheet,
\* loaded again.
WrappedWorkbook == load_workbook(Serialize(xw_create_sheet(<<>>, "A").x))

InitCells ==
    /\ E \in {NewEngine, from_workbook(WrappedWorkbook)}
    /\ XW = <<>>
    /\ node = <<>>
    /\ engineSel = "openpyxl"
    /\ pc = "engine"
    /\ idx = 0
    /\ path = "none"
    /\ mergedWb = <<>>
    /\ aliased = FALSE
    /\ target = NoFile
    /\ rlog = <<>>
    /\ serializer = "none"
    /\ built = <<"openpyxl">>
    /\ last = NoCall
    /\ req = <<>>
    /\ nops = 0
    /\ prev = NoPrev
    /\ L = NoLayout

WriteStyled(cell, style, border_fallback_color) ==
    /\ UNCHANGED xvars
    /\ pc = "engine" /\ nops < MaxOps
    /\ LET r == write_cell(E, cell, Written, style, border_fallback_color)
       IN  /\ E' = r.e
           /\ last' = Call("write_cell", "", "", "", r.res, Pre(E))
    /\ nops' = nops + 1
    /\ UNCHANGED <<target, req, SaveVarsIdle>>

SetColumnWidth(col, width) ==
    /\ UNCHANGED xvars
    /\ pc = "engine" /\ nops < MaxOps
    /\ LET r == set_column_width(E, col, width)
       IN  /\ E' = r.e
           /\ last' = Call("set_column_width", "", "", "", r.res, Pre(E))
    /\ nops' = nops + 1
    /\ UNCHANGED <<target, req, SaveVarsIdle>>

SetRowHeight(row, height) ==
    /\ UNCHANGED xvars
    /\ pc = "engine" /\ nops < MaxOps
    /\ LET r == set_row_height(E, row, height)
       IN  /\ E' = r.e
           /\ last' = Call("set_row_height", "", "", "", r.res, Pre(E))
    /\ nops' = nops + 1
    /\ UNCHANGED <<target, req, SaveVarsIdle>>

FillBackground(color) ==
    /\ UNCHANGED xvars
    /\ pc = "engine" /\ nops < MaxOps
    /\ LET r == fill_background(E, color)
       IN  /\ E' = r.e
           /\ last' = Call("fill_background", "", "", "", r.res, Pre(E))
    /\ nops' = nops + 1
    /\ UNCHANGED <<target, req, SaveVarsIdle>>

NextCells ==
    \/ \E name \in {"A"} : CreateSheet(name)
    \/ \E dest_name \in {"A", "X"} : CopySheet("p1", "A", dest_name)
    \/ \E cell \in Cells, style \in Styles, fb \in FallbackColors :
          WriteStyled(cell, style, fb)
    \/ \E col \in {1}, width \in Widths : SetColumnWidth(col, width)
    \/ \E row \in {1}, height \in Heights : SetRowHeight(row, height)
    \/ \E color \in FallbackColors : FillBackground(color)
    \/ EngineSave

SpecCells == InitCells /\ [][NextCells]_vars

----------------------------------------------------------------------------
\* One OpenpyxlEngine writing styled cells, before and after its one sheet
\* is created: idx counts the write_cell calls, and the call record keeps
\* the cell, the style and the fallback colour.

MaxWrites == 2

StyledCall(cell, style, border_fallback_color, res) ==
    [op |-> "write_cell", res |-> res, cell |-> cell, style |-> style,
     fallback |-> border_fallback_color]

InitStyle ==
    /\ E = NewEngine
    /\ XW = <<>>
    /\ node = <<>>
    /\ engineSel = "openpyxl"
    /\ pc = "engine"
    /\ idx = 0
    /\ path = "none"
    /\ mergedWb = <<>>
    /\ aliased = FALSE
    /\ target = NoFile
    /\ rlog = <<>>
    /\ serializer = "none"
    /\ built = <<"openpyxl">>
    /\ last = NoCall
    /\ req = <<>>
    /\ nops = 0
    /\ prev = NoPrev
    /\ L = NoLayout

WriteStyledCell(cell, style, border_fallback_color) ==
    /\ pc = "engine" /\ idx < MaxWrites
    /\ LET r == write_cell(E, cell, Written, style, border_fallback_color)
       IN  /\ E' = r.e
           /\ last' = StyledCall(cell, style, border_fallback_color, r.res)
    /\ idx' = idx + 1
    /\ UNCHANGED <<XW, node, engineSel, pc, path, mergedWb, aliased, target, rlog,
                   serializer, built, req, nops, xvars>>

NextStyle ==
    \/ \E name \in {"A"} : Len(E.wb) = 0 /\ CreateSheet(name)
    \/ \E cell \in {1}, style \in EffectiveStyles, fb \in FallbackColors :
          WriteStyledCell(cell, style, fb)

SpecStyle == InitStyle /\ [][NextStyle]_vars

----------------------------------------------------------------------------
\* One OpenpyxlEngine sizing the columns and rows of its sheets: idx counts
\* the sizing calls, and the call record keeps the column or row and the
\* size requested.

MaxSizings == 3

Columns == {1, 2}
Rows == {1, 2}
RowHeights == {20, 40}

SizeCall(op, index, size, res) == [op |-> op, res |-> res, index |-> index, size |-> size]

InitSizes ==
    /\ E = NewEngine
    /\ XW = <<>>
    /\ node = <<>>
    /\ engineSel = "openpyxl"
    /\ pc = "engine"
    /\ idx = 0
    /\ path = "none"
    /\ mergedWb = <<>>
    /\ aliased = FALSE
    /\ target = NoFile
    /\ rlog = <<>>
    /\ serializer = "none"
    /\ built = <<"openpyxl">>
    /\ last = NoCall
    /\ req = <<>>
    /\ nops = 0
    /\ prev = NoPrev
    /\ L = NoLayout

SizeColumn(col, width) ==
    /\ pc = "engine" /\ idx < MaxSizings
    /\ LET r == set_column_width(E, col, width)
       IN  /\ E' = r.e
           /\ last' = SizeCall("set_column_width", col, width, r.res)
    /\ idx' = idx + 1
    /\ UNCHANGED <<XW, node, engineSel, pc, path, mergedWb, aliased, target, rlog,
                   serializer, built, req, nops, xvars>>

SizeRow(row, height) ==
    /\ pc = "engine" /\ idx < MaxSizings
    /\ LET r == set_row_height(E, row, height)
       IN  /\ E' = r.e
           /\ last' = SizeCall("set_row_height", row, height, r.res)
    /\ idx' = idx + 1
    /\ UNCHANGED <<XW, node, engineSel, pc, path, mergedWb, aliased, target, rlog,
                   serializer, built, req, nops, xvars>>

NextSizes ==
    \/ \E name \in {"A", "B"} : Len(E.wb) < 2 /\ CreateSheet(name)
    \/ \E col \in Columns, width \in Widths : SizeColumn(col, width)
    \/ \E row \in Rows, height \in RowHeights : SizeRow(row, height)

SpecSizes == InitSizes /\ [][NextSizes]_vars

----------------------------------------------------------------------------
\* One call of Workbook.save

SaveSources == PathSources \cup BytesSources
EngineNames == {"openpyxl", "xlsxwriter"}

SheetOptions ==
    {SheetNode(n) : n \in Names} \cup
    {ImportedSheetNode(n, src, sn) : n \in Names, src \in SaveSources,
                                     sn \in SourceSheetNames}

Workbooks == UNION {[1..k -> SheetOptions] : k \in 1..MaxSheets}

InitSave ==
    /\ node \in Workbooks
    /\ engineSel \in EngineNames
    /\ pc = "start"
    /\ E = NewEngine
    /\ XW = <<>>
    /\ idx = 0
    /\ path = "none"
    /\ mergedWb = <<>>
    /\ aliased = FALSE
    /\ target = NoFile
    /\ rlog = <<>>
    /\ serializer = "none"
    /\ built = <<>>
    /\ last = NoCall
    /\ req = <<>>
    /\ nops = 0
    /\ prev = NoPrev
    /\ L = NoLayout

Rendered(eng, name) == [eng |-> eng, name |-> name]

\* get_engine: a new instance of the named engine.
get_engine(name) == [name |-> name, e |-> NewEngine, x |-> <<>>]

\* The engine of an earlier call kept in use instead of a new instance.
SaveDispatch_Reuse ==
    /\ UNCHANGED xvars
    /\ pc = "start"
    /\ IF engineSel = "xlsxwriter" /\ _has_imported_sheets(node)
       THEN /\ path' = "hybrid"
            /\ pc' = "phaseA"
            /\ UNCHANGED <<E, XW, built, idx>>
       ELSE /\ path' = "standard"
            /\ pc' = "render"
            /\ idx' = 1
            /\ built' = <<engineSel>>
            /\ UNCHANGED <<E, XW>>
    /\ UNCHANGED <<node, engineSel, mergedWb, aliased, target, rlog, serializer,
                   last, req, nops>>

\* Workbook.save up to the choice of the path and of the engine instance.
SaveDispatch ==
    /\ UNCHANGED xvars
    /\ pc = "start"
    /\ IF engineSel = "xlsxwriter" /\ _has_imported_sheets(node)
       THEN /\ path' = "hybrid"
            /\ pc' = "phaseA"
            /\ UNCHANGED <<E, XW, built, idx>>
       ELSE /\ path' = "standard"
            /\ pc' = "render"
            /\ idx' = 1
            /\ built' = <<engineSel>>
            /\ E' = get_engine(engineSel).e
            /\ XW' = get_engine(engineSel).x
    /\ UNCHANGED <<node, engineSel, mergedWb, aliased, target, rlog, serializer,
                   last, req, nops>>

\* One turn of the standard path's loop: render_sheet(engine_instance, sheet).
StdRender ==
    /\ UNCHANGED xvars
    /\ pc = "render" /\ idx <= Len(node)
    /\ IF engineSel = "openpyxl"
       THEN LET r == render_sheet(E, node[idx])
            IN  /\ E' = r.e
                /\ pc' = IF r.res = "ok" THEN "render" ELSE "failed"
                /\ rlog' = IF r.res = "ok"
                           THEN Append(rlog, Rendered("openpyxl", node[idx].name))
                           ELSE rlog
                /\ last' = Call(IF node[idx].kind = "import" THEN "copy_sheet"
                                ELSE "create_sheet",
                                node[idx].source, node[idx].source_sheet,
                                node[idx].name, r.res, Pre(E))
                /\ XW' = XW
       ELSE LET r == xw_render_sheet(XW, node[idx])
            IN  /\ XW' = r.x
                /\ pc' = IF r.res = "ok" THEN "render" ELSE "failed"
                /\ rlog' = IF r.res = "ok"
                           THEN Append(rlog, Rendered("xlsxwriter", node[idx].name))
                           ELSE rlog
                /\ last' = IF node[idx].kind = "import" THEN XwCopyCall ELSE last
                /\ E' = E
    /\ idx' = idx + 1
    /\ UNCHANGED <<node, engineSel, path, mergedWb, aliased, target, serializer,
                   built, req, nops>>

\* engine_instance.save(target) of the standard path.
StdSave ==
    /\ UNCHANGED xvars
    /\ pc = "render" /\ idx > Len(node)
    /\ IF engineSel = "openpyxl"
       THEN LET r == save(E)
            IN  /\ E' = r.e
                /\ target' = IF r.res = "ok" THEN r.doc ELSE target
                /\ pc' = IF r.res = "ok" THEN "done" ELSE "failed"
       ELSE /\ target' = Serialize(XW)
            /\ pc' = "done"
            /\ E' = E
    /\ serializer' = engineSel
    /\ UNCHANGED <<XW, node, engineSel, idx, path, mergedWb, aliased, rlog, built,
                   last, req, nops>>

\* Phase A with xw_engine.save(target) where the code has save(None).
HybridPhaseA_SaveToTarget ==
    /\ UNCHANGED xvars
    /\ pc = "phaseA"
    /\ LET sheet_nodes == FreshNodes(node)
           r == xw_render_all(<<>>, sheet_nodes)
       IN  IF Len(sheet_nodes) > 0
           THEN IF r.res = "ok"
                THEN /\ XW' = r.x
                     /\ E' = from_workbook(load_workbook(Serialize(r.x)))
                     /\ built' = <<"xlsxwriter", "openpyxl">>
                     /\ rlog' = [i \in 1..Len(sheet_nodes) |->
                                   Rendered("xlsxwriter", sheet_nodes[i].name)]
                     /\ target' = Serialize(r.x)
                     /\ pc' = "phaseB"
                ELSE /\ XW' = r.x
                     /\ built' = <<"xlsxwriter">>
                     /\ pc' = "failed"
                     /\ UNCHANGED <<E, rlog, target>>
           ELSE /\ E' = from_workbook(EmptyMergedWb)
                /\ built' = <<"openpyxl">>
                /\ pc' = "phaseB"
                /\ UNCHANGED <<XW, rlog, target>>
    /\ last' = IF xw_render_all(<<>>, FreshNodes(node)).res = "BackendCapabilityError"
               THEN XwCopyCall ELSE last
    /\ aliased' = TRUE
    /\ idx' = 1
    /\ UNCHANGED <<node, engineSel, path, mergedWb, serializer, req, nops>>

\* Phase A of the hybrid path: the declared sheets go through xlsxwriter and
\* the result is loaded as merged_wb, which the openpyxl engine then wraps.
HybridPhaseA ==
    /\ UNCHANGED xvars
    /\ pc = "phaseA"
    /\ LET sheet_nodes == FreshNodes(node)
           r == xw_render_all(<<>>, sheet_nodes)
       IN  IF Len(sheet_nodes) > 0
           THEN IF r.res = "ok"
                THEN /\ XW' = r.x
                     /\ E' = from_workbook(load_workbook(Serialize(r.x)))
                     /\ built' = <<"xlsxwriter", "openpyxl">>
                     /\ rlog' = [i \in 1..Len(sheet_nodes) |->
                                   Rendered("xlsxwriter", sheet_nodes[i].name)]
                     /\ pc' = "phaseB"
                ELSE /\ XW' = r.x
                     /\ built' = <<"xlsxwriter">>
                     /\ pc' = "failed"
                     /\ UNCHANGED <<E, rlog>>
           ELSE /\ E' = from_workbook(EmptyMergedWb)
                /\ built' = <<"openpyxl">>
                /\ pc' = "phaseB"
                /\ UNCHANGED <<XW, rlog>>
    /\ last' = IF xw_render_all(<<>>, FreshNodes(node)).res = "BackendCapabilityError"
               THEN XwCopyCall ELSE last
    /\ aliased' = TRUE
    /\ idx' = 1
    /\ UNCHANGED <<node, engineSel, path, mergedWb, target, serializer, req, nops>>

\* One turn of phase B's loop: an imported sheet is copied, a declared one
\* is passed over. A template start gives the engine a workbook of its own.
HybridImport ==
    /\ UNCHANGED xvars
    /\ pc = "phaseB" /\ idx <= Len(node)
    /\ IF node[idx].kind = "import"
       THEN LET r == copy_sheet(E, node[idx].source, node[idx].source_sheet,
                                node[idx].name)
            IN  /\ E' = r.e
                /\ pc' = IF r.res = "ok" THEN "phaseB" ELSE "failed"
                /\ rlog' = IF r.res = "ok"
                           THEN Append(rlog, Rendered("openpyxl", node[idx].name))
                           ELSE rlog
                /\ last' = Call("copy_sheet", node[idx].source, node[idx].source_sheet,
                                node[idx].name, r.res, Pre(E))
                /\ aliased' = (aliased /\ (r.e.tmpl = E.tmpl))
                /\ mergedWb' = IF aliased /\ r.e.tmpl # E.tmpl THEN E.wb ELSE mergedWb
       ELSE UNCHANGED <<E, pc, rlog, last, aliased, mergedWb>>
    /\ idx' = idx + 1
    /\ UNCHANGED <<XW, node, engineSel, path, target, serializer, built, req, nops>>

\* Phase C: _reorder_sheets(merged_wb).
HybridReorder ==
    /\ UNCHANGED xvars
    /\ pc = "phaseB" /\ idx > Len(node)
    /\ IF aliased
       THEN /\ E' = [E EXCEPT !.wb = _reorder_sheets(node, E.wb),
                              !.active = _reorder_active(E.wb, @)]
            /\ mergedWb' = mergedWb
       ELSE /\ mergedWb' = _reorder_sheets(node, mergedWb)
            /\ E' = E
    /\ pc' = "phaseC"
    /\ UNCHANGED <<XW, node, engineSel, idx, path, aliased, target, rlog, serializer,
                   built, last, req, nops>>

\* openpyxl_engine.save(target) of the hybrid path.
HybridSave ==
    /\ UNCHANGED xvars
    /\ pc = "phaseC"
    /\ LET r == save(E)
       IN  /\ E' = r.e
           /\ target' = IF r.res = "ok" THEN r.doc ELSE target
           /\ pc' = IF r.res = "ok" THEN "done" ELSE "failed"
    /\ serializer' = "openpyxl"
    /\ UNCHANGED <<XW, node, engineSel, idx, path, mergedWb, aliased, rlog, built,
                   last, req, nops>>

NextSave ==
    \/ SaveDispatch
    \/ StdRender
    \/ StdSave
    \/ HybridPhaseA
    \/ HybridImport
    \/ HybridReorder
    \/ HybridSave

----------------------------------------------------------------------------
\* Several calls of save and to_openpyxl on one Workbook, one after the other

MaxCalls == 2

TwiceOptions ==
    {SheetNode(n) : n \in {"A", "X"}} \cup
    {ImportedSheetNode(n, "p1", sn) : n \in {"A", "X"}, sn \in SourceSheetNames}

InitTwice ==
    /\ node \in UNION {[1..k -> TwiceOptions] : k \in 1..MaxSheets}
    /\ engineSel \in EngineNames
    /\ pc = "start"
    /\ E = NewEngine
    /\ XW = <<>>
    /\ idx = 0
    /\ path = "none"
    /\ mergedWb = <<>>
    /\ aliased = FALSE
    /\ target = NoFile
    /\ rlog = <<>>
    /\ serializer = "none"
    /\ built = <<>>
    /\ last = NoCall
    /\ req = <<>>
    /\ nops = 0
    /\ prev = NoPrev
    /\ L = NoLayout

\* The loop of to_openpyxl: render_sheet(engine, sheet) for every sheet.
RECURSIVE render_all(_, _)
render_all(e, sheets) ==
    IF Len(sheets) = 0 THEN Ok(e)
    ELSE LET r == render_sheet(e, Head(sheets))
         IN  IF r.res # "ok" THEN r ELSE render_all(r.e, Tail(sheets))

\* Workbook.to_openpyxl: a new OpenpyxlEngine renders every sheet and its
\* workbook is returned; nothing is written.
ToOpenpyxl ==
    /\ pc = "start"
    /\ LET r == render_all(NewEngine, node)
       IN  /\ E' = r.e
           /\ pc' = IF r.res = "ok" THEN "returned" ELSE "failed"
    /\ path' = "to_openpyxl"
    /\ built' = <<"openpyxl">>
    /\ UNCHANGED <<XW, node, engineSel, idx, mergedWb, aliased, target, rlog,
                   serializer, last, req, nops, xvars>>

\* What a finished call leaves to compare the next one with.
Outcome ==
    [n |-> prev.n + 1, node |-> node, path |-> path, pc |-> pc,
     doc |-> IF pc = "returned" THEN Serialize(E.wb) ELSE target]

\* The caller makes another call on the same Workbook object. The engines
\* of the finished call are still around; the target is a new one.
CallAgain ==
    /\ pc \in {"done", "failed", "returned"}
    /\ prev.n + 1 < MaxCalls
    /\ prev' = Outcome
    /\ pc' = "start"
    /\ idx' = 0
    /\ path' = "none"
    /\ target' = NoFile
    /\ rlog' = <<>>
    /\ serializer' = "none"
    /\ built' = <<>>
    /\ last' = NoCall
    /\ mergedWb' = <<>>
    /\ aliased' = FALSE
    /\ UNCHANGED <<E, XW, node, engineSel, req, nops, L>>

NextTwice ==
    \/ SaveDispatch
    \/ StdRender
    \/ StdSave
    \/ HybridPhaseA
    \/ HybridImport
    \/ HybridReorder
    \/ HybridSave
    \/ ToOpenpyxl
    \/ CallAgain

SpecTwice == InitTwice /\ [][NextTwice]_vars

----------------------------------------------------------------------------
\* The layout engine: a Table expanded into rows, a vertical Stack laid out
\* child by child down the sheet

MaxRows == 2
MaxChildren == 3
MaxGap == 2

\* A mapping-row is given by its keys in insertion order; the value under
\* key k of the r-th row is <<r, k>>.
KeyOrders ==
    {<<"A", "B", "C">>, <<"A", "C", "B">>, <<"B", "A", "C">>, <<"B", "C", "A">>,
     <<"C", "A", "B">>, <<"C", "B", "A">>, <<"A", "B">>, <<"C", "D">>}

KeysOf(row) == {row[j] : j \in 1..Len(row)}

\* The header taken from the last row alone.
RECURSIVE first_seen_last(_, _)
first_seen_last(rows, seen) ==
    IF Len(rows) = 0 THEN seen ELSE rows[Len(rows)]

\* The keys of the rows in first-seen order, rows taken in order.
RECURSIVE first_seen(_, _)
first_seen(rows, seen) ==
    IF Len(rows) = 0 THEN seen
    ELSE first_seen(Tail(rows),
                    seen \o SelectSeq(Head(rows), LAMBDA k : k \notin KeysOf(seen)))

\* A Table expands into one header row and one row per mapping-row; a row
\* without a header's key leaves that cell empty.
expand_table(rows) ==
    LET header == first_seen(rows, <<>>)
    IN  <<header>> \o
        [r \in 1..Len(rows) |->
            [j \in 1..Len(header) |->
                IF header[j] \in KeysOf(rows[r]) THEN <<r, header[j]>> ELSE <<>>]]

RowNode == [kind |-> "row"]
SpaceNode == [kind |-> "space"]
TableNode(rows) == [kind |-> "table", rows |-> rows]
VStack(children, gap) == [kind |-> "vstack", children |-> children, gap |-> gap]

\* The cursor after a child of a stack: gap blank rows are left when
\* another child follows. Here one row more than the gap is left.
advance_extra(next, gap, more) == IF more THEN next + gap + 1 ELSE next

\* The cursor after a child of a stack: gap blank rows are left when
\* another child follows.
advance(next, gap, more) == IF more THEN next + gap ELSE next

\* A node laid out from a row on: the rows it fills with cells (occ) and the
\* first row after it (next). A Space takes one row and fills none; a
\* nested stack is laid out from the row as its own origin.
RECURSIVE Place(_, _), PlaceSeq(_, _, _)
Place(n, row) ==
    IF n.kind = "row" THEN [occ |-> {row}, next |-> row + 1]
    ELSE IF n.kind = "space" THEN [occ |-> {}, next |-> row + 1]
    ELSE IF n.kind = "table"
    THEN [occ |-> row..(row + Len(expand_table(n.rows)) - 1),
          next |-> row + Len(expand_table(n.rows))]
    ELSE PlaceSeq(n.children, n.gap, row)

PlaceSeq(children, gap, row) ==
    IF Len(children) = 0 THEN [occ |-> {}, next |-> row]
    ELSE LET p == Place(Head(children), row)
             q == PlaceSeq(Tail(children), gap,
                           advance(p.next, gap, Len(children) > 1))
         IN  [occ |-> p.occ \cup q.occ, next |-> q.next]

Tables == UNION {[1..n -> KeyOrders] : n \in 1..MaxRows}

StackChildren ==
    {RowNode, SpaceNode, TableNode(<<<<"A", "B", "C">>>>),
     VStack(<<RowNode, RowNode>>, 1),
     VStack(<<RowNode, TableNode(<<<<"A", "B">>>>)>>, 0)}

Stacks ==
    {VStack(c, g) : c \in UNION {[1..k -> StackChildren] : k \in 2..MaxChildren},
                    g \in 0..MaxGap}

InitLayout ==
    /\ \/ \E rows \in Tables :
             L = [kind |-> "table", rows |-> rows, grid |-> <<>>, done |-> FALSE]
       \/ \E st \in Stacks :
             L = [kind |-> "vstack", children |-> st.children, gap |-> st.gap,
                  i |-> 1, cursor |-> 1, placed |-> <<>>, occ |-> {}]
    /\ pc = "layout"
    /\ E = NewEngine
    /\ XW = <<>>
    /\ node = <<>>
    /\ engineSel = "openpyxl"
    /\ idx = 0
    /\ path = "none"
    /\ mergedWb = <<>>
    /\ aliased = FALSE
    /\ target = NoFile
    /\ rlog = <<>>
    /\ serializer = "none"
    /\ built = <<>>
    /\ last = NoCall
    /\ req = <<>>
    /\ nops = 0
    /\ prev = NoPrev

LayoutIdle == <<E, XW, node, engineSel, pc, idx, path, mergedWb, aliased, target,
                rlog, serializer, built, last, req, nops, prev>>

\* Layout of a Table node.
LayoutTable ==
    /\ pc = "layout" /\ L.kind = "table" /\ ~L.done
    /\ L' = [L EXCEPT !.grid = expand_table(L.rows), !.done = TRUE]
    /\ UNCHANGED LayoutIdle

\* Layout of the next child of a vertical Stack, at the cursor.
LayoutChild ==
    /\ pc = "layout" /\ L.kind = "vstack" /\ L.i <= Len(L.children)
    /\ LET p == Place(L.children[L.i], L.cursor)
       IN  L' = [L EXCEPT !.placed = Append(@, [first |-> L.cursor,
                                                 last |-> p.next - 1]),
                          !.occ = @ \cup p.occ,
                          !.cursor = advance(p.next, L.gap, L.i < Len(L.children)),
                          !.i = @ + 1]
    /\ UNCHANGED LayoutIdle

NextLayout == LayoutTable \/ LayoutChild

SpecLayout == InitLayout /\ [][NextLayout]_vars

----------------------------------------------------------------------------
\* _reorder_sheets on its own: any workbook of sheets with distinct titles,
\* any declaration of distinct names, the function applied and applied again

\* Titles a workbook can hold: the names, and a name openpyxl gave a counter.
ReorderTitles == {T(n) : n \in Names} \cup {[b |-> "A", n |-> 1]}

ReorderBooks ==
    {wb \in UNION {[1..k -> ReorderTitles] : k \in 0..MaxSheets} : Distinct(wb)}

ReorderDeclarations ==
    {d \in UNION {[1..k -> Names] : k \in 0..MaxSheets} : Distinct(d)}

InitReorder ==
    /\ \E wb \in ReorderBooks :
          mergedWb = [i \in 1..Len(wb) |->
                         Sheet(wb[i], O("doc", wb[i].b), Blank, Blank)]
    /\ \E d \in ReorderDeclarations : node = [i \in 1..Len(d) |-> SheetNode(d[i])]
    /\ pc = "reorder"
    /\ idx = 0
    /\ prev = NoPrev
    /\ E = NewEngine
    /\ XW = <<>>
    /\ engineSel = "xlsxwriter"
    /\ path = "hybrid"
    /\ aliased = FALSE
    /\ target = NoFile
    /\ rlog = <<>>
    /\ serializer = "none"
    /\ built = <<>>
    /\ last = NoCall
    /\ req = <<>>
    /\ nops = 0
    /\ L = NoLayout

\* self._reorder_sheets(merged_wb), once and once more; prev keeps the
\* workbook as it was before the latest call.
Reorder ==
    /\ pc = "reorder" /\ idx < 2
    /\ mergedWb' = _reorder_sheets(node, mergedWb)
    /\ prev' = [n |-> idx + 1, doc |-> mergedWb]
    /\ idx' = idx + 1
    /\ UNCHANGED <<E, XW, node, engineSel, pc, path, aliased, target, rlog,
                   serializer, built, last, req, nops, L>>

NextReorder == Reorder

SpecReorder == InitReorder /\ [][NextReorder]_vars

Init == InitEngine \/ InitSave

Next == NextEngine \/ NextSave

Spec == Init /\ [][Next]_vars

----------------------------------------------------------------------------
\* Properties

Declared == [i \in 1..Len(node) |-> T(node[i].name)]
HasImport == \E i \in 1..Len(node) : node[i].kind = "import"
InSave == pc # "engine"

\* C1: when the hybrid path has saved a workbook whose sheet names are
\* pairwise distinct, the sheet names of the serialized document, in order,
\* are the declared names in declaration order.
C1_HybridOrder ==
    (pc = "done" /\ path = "hybrid" /\ Distinct(NodeNames(node)))
        => (target.written /\ TitleSeq(target.sheets) = Declared)

\* A hybrid save of a declared, an imported and a declared sheet has finished.
C1_Witness ==
    /\ pc = "done" /\ path = "hybrid" /\ Len(node) = 3
    /\ node[1].kind = "fresh" /\ node[2].kind = "import" /\ node[3].kind = "fresh"
    /\ TitleSeq(target.sheets) = Declared

\* C2 as claimed: copy_sheet fails with the not-found error whenever the
\* source lacks the sheet, and with the name-conflict error whenever the
\* destination already has the name.
C2_AsClaimed ==
    last.op = "copy_sheet"
        => /\ last.absent => last.res = "NotFound"
           /\ last.taken => last.res = "NameConflict"

\* C2 amended: copy_sheet fails with the not-found error when the source
\* lacks the sheet, whatever the destination name; it fails with the
\* name-conflict error when the source has the sheet and the destination
\* already has the name. Inside a save either error ends the save, and no
\* document is written.
C2_CopySheetErrors ==
    last.op = "copy_sheet"
        => /\ last.absent => last.res = "NotFound"
           /\ (~last.absent /\ last.taken) => last.res = "NameConflict"
           /\ (~last.absent /\ ~last.taken) => last.res = "ok"
           /\ (InSave /\ last.res # "ok") => (pc = "failed" /\ ~target.written)

\* A save has ended on the name conflict of an import whose source sheet exists.
C2_Witness ==
    /\ last.op = "copy_sheet" /\ ~last.absent /\ last.taken
    /\ last.res = "NameConflict" /\ pc = "failed" /\ ~target.written

\* C3: save takes the hybrid path exactly when the engine is xlsxwriter and
\* some sheet is imported; otherwise one instance of the selected engine is
\* built, renders every declared sheet in declared order and serializes.
C3_PathChoice ==
    /\ (InSave /\ pc # "start")
         => /\ path \in {"hybrid", "standard"}
            /\ path = "hybrid" <=> (engineSel = "xlsxwriter" /\ HasImport)
    /\ path = "standard"
         => /\ built = <<engineSel>>
            /\ Len(rlog) <= Len(node)
            /\ \A i \in 1..Len(rlog) : rlog[i] = Rendered(engineSel, node[i].name)
            /\ pc = "done" => (Len(rlog) = Len(node) /\ serializer = engineSel)

\* The openpyxl engine has rendered and saved a workbook with an import on
\* the standard path.
C3_Witness ==
    /\ path = "standard" /\ pc = "done" /\ engineSel = "openpyxl"
    /\ HasImport /\ Len(node) >= 2 /\ Len(rlog) = Len(node)

\* C4: the target is written only by the last step of a save, after every
\* sheet was rendered or imported and, on the hybrid path, after the
\* reordering; a save that fails has written nothing.
C4_TargetWrittenLast ==
    InSave => /\ target.written => (pc = "done" /\ idx > Len(node)
                                    /\ Len(rlog) = Len(node))
              /\ pc = "failed" => ~target.written

\* A hybrid save has failed in an import after the declared sheets were rendered.
C4_Witness ==
    /\ pc = "failed" /\ path = "hybrid" /\ Len(rlog) >= 1
    /\ last.op = "copy_sheet" /\ last.res # "ok" /\ ~target.written

\* The sheet copy_sheet has just made: the engine's current sheet.
Created == Get(E.wb, E.cur)
CopiedOk == last.op = "copy_sheet" /\ last.res = "ok"
SourceOrigin == O(last.source, last.sheet)

\* C5: after a successful copy_sheet(source, S, D) the sheet named D of the
\* document save produces holds the cell values and the merge ranges of
\* sheet S of the source.
C5_CopyHoldsSource ==
    CopiedOk =>
        LET doc == Pruned(E)
        IN  /\ T(last.name) \in TitlesOf(doc)
            /\ Get(doc, T(last.name)).vals = SourceOrigin
            /\ Get(doc, T(last.name)).merges = SourceOrigin

C7_NamesInCallOrder ==
    (pc = "engine" /\ last.op = "save" /\ last.pre = "unsaved" /\ last.res = "ok"
     /\ Distinct(req))
        => TitleSeq(target.sheets) = [i \in 1..Len(req) |-> T(req[i])]

\* C8: a save of a workbook in which two sheets share a name never produces
\* a document.
C8_DuplicateNamesFail ==
    (InSave /\ ~Distinct(NodeNames(node))) => (pc # "done" /\ ~target.written)

\* C9: within one save no source is loaded more than once.
C9_LoadOnce ==
    InSave => \A s \in Sources : E.nloads[s] <= 1

\* C10: a new OpenpyxlEngine has no sheet, the hybrid path's destination has
\* no sheet before the first import when no sheet is declared fresh, and no
\* saved document holds the library's default sheet.
C10_NoDefaultSheet ==
    /\ (pc = "engine" /\ nops = 0) => Len(E.wb) = 0
    /\ (pc = "render" /\ idx = 1 /\ engineSel = "openpyxl") => Len(E.wb) = 0
    /\ (pc = "phaseB" /\ idx = 1 /\ Len(FreshNodes(node)) = 0) => Len(E.wb) = 0
    /\ \A i \in 1..Len(target.sheets) :
          /\ target.sheets[i].vals # DefaultOrigin
          /\ target.sheets[i].title.b # "Sheet"

\* The hybrid path has saved a workbook of imported sheets only.
C10_Witness ==
    /\ pc = "done" /\ path = "hybrid" /\ Len(FreshNodes(node)) = 0
    /\ target.written /\ Len(target.sheets) = Len(node)

CellOps == {"write_cell", "set_column_width", "set_row_height", "fill_background"}

\* C11: on an engine with no current sheet (new, or wrapped around a
\* workbook that has sheets) write_cell, set_column_width, set_row_height
\* and fill_background each fail and leave the engine and its workbook as
\* they were; the engine has a current sheet exactly after a successful
\* create_sheet or copy_sheet, and then each of them succeeds.
C11_NoCurrentSheet ==
    /\ [](pc = "engine" => (E.cur # NoSheet <=> Len(req) > 0))
    /\ [][(nops' = nops + 1 /\ last'.op \in CellOps)
            => IF E.cur = NoSheet
               THEN last'.res = "NoSheet" /\ E' = E
               ELSE last'.res = "ok"]_vars

\* A cell-level call has failed on an engine wrapped around a workbook that
\* has a sheet.
C11_Witness ==
    /\ last.op \in CellOps /\ last.res = "NoSheet"
    /\ Len(E.wb) > 0 /\ E.cur = NoSheet

\* The style objects of the styled cells of the engine's workbook.
CellStyles ==
    UNION {{E.wb[i].cellstyle[c] : c \in DOMAIN E.wb[i].cellstyle} : i \in 1..Len(E.wb)}

\* C12: within one engine instance, whatever write_cell and fill_background
\* calls were made, the style objects of a style key (the attributes with
\* the border colour that takes effect) were constructed at most once, each
\* colour string was converted at most once, and the cells written with the
\* same key hold the same style objects, those of the cache. (The fill of
\* fill_background has no style key: it is one object per call, and only
\* its colour goes through the colour cache.)
C12_StyleCache ==
    pc = "engine" =>
        /\ \A k \in StyleKeys : Constructions(E, k) <= 1
        /\ \A c \in Colors : E.nconv[c] <= 1
        /\ \A o1, o2 \in CellStyles : o1.key = o2.key => o1 = o2
        /\ CellStyles \subseteq E.style_cache

\* Two cells written with different styles of the same key (the border
\* colour once explicit, once the fallback colour) share their style
\* objects, and a background of an already converted colour was filled.
C12_Witness ==
    /\ pc = "engine" /\ E.nfill = 1 /\ E.nconv["red"] = 1
    /\ last.op = "fill_background" /\ last.res = "ok"
    /\ \E i \in 1..Len(E.wb) :
          /\ DOMAIN E.wb[i].cellstyle = Cells
          /\ E.wb[i].cellstyle[1] = E.wb[i].cellstyle[2]
          /\ E.wb[i].cellstyle[1].key = cache_key(BoxedRed, "gray")
          /\ E.wb[i].fill.color = "red"

\* C13: copy_sheet and save leave the source as the caller supplied it: the
\* workbook loaded from a source still equals the source document after
\* any calls, also when the source became the template base and its copy
\* was given new sheets, renamed sheets, or was pruned by save.
C13_SourceUntouched ==
    E.loaded.id # "" => E.loaded.wb = SourceBook(E.loaded.id)

\* A save has pruned a template base made from source p1, whose copied
\* sheet had been renamed; the source still has its two sheets.
C13_Witness ==
    /\ last.op = "save" /\ last.res = "ok" /\ E.tmpl
    /\ E.loaded.id = "p1" /\ Len(E.loaded.wb) = 2
    /\ Len(E.wb) = 1 /\ req = <<"A">> /\ E.wb[1].title = T("A")

\* C14: every save and every to_openpyxl works on engine instances of its
\* own, new at the start of the call: the openpyxl engine starts with empty
\* caches, no template state and no current sheet, the xlsxwriter engine
\* with no sheet. The node is the same in every call, and a call ends as
\* the call of the same kind before it: the same outcome, and the same
\* sheets in the same order with the same content.
C14_FreshEnginesEachCall ==
    /\ (pc = "render" /\ idx = 1 /\ engineSel = "openpyxl") => E = NewEngine
    /\ (pc = "render" /\ idx = 1 /\ engineSel = "xlsxwriter") => XW = <<>>
    /\ (pc = "phaseB" /\ idx = 1) => E = from_workbook(E.wb)
    /\ prev.n > 0 =>
          /\ node = prev.node
          /\ (pc \in {"done", "failed", "returned"}
               /\ (path = "to_openpyxl" <=> prev.path = "to_openpyxl"))
                => /\ pc = prev.pc
                   /\ pc = "done" => target = prev.doc
                   /\ pc = "returned" => Serialize(E.wb) = prev.doc

\* A second hybrid save of a workbook of imported sheets only has written
\* the document the first one wrote.
C14_Witness ==
    /\ prev.n = 1 /\ prev.pc = "done" /\ prev.path = "hybrid"
    /\ pc = "done" /\ path = "hybrid" /\ Len(FreshNodes(node)) = 0
    /\ Len(node) = 2 /\ target.written /\ target = prev.doc

FreshIndexes == {i \in 1..Len(node) : node[i].kind = "fresh"}
ImportIndexes == {i \in 1..Len(node) : node[i].kind = "import"}
RenderedBy(eng) == {j \in 1..Len(rlog) : rlog[j].eng = eng}

\* C15: copy_sheet never reaches the xlsxwriter engine: that engine has
\* only sheets of declared (fresh) nodes, in their order, and whenever a
\* save has finished every imported sheet was handled by the openpyxl
\* engine.
C15_ImportsOnOpenpyxlOnly ==
    InSave =>
        /\ last.op # "xw_copy_sheet"
        /\ Cardinality(RenderedBy("xlsxwriter")) <= Cardinality(FreshIndexes)
        /\ \A j \in RenderedBy("xlsxwriter") :
              \E i \in FreshIndexes : node[i].name = rlog[j].name
        /\ \A k \in 1..Len(XW) :
              \E i \in FreshIndexes : T(node[i].name) = XW[k].title
        /\ pc = "done" =>
              /\ Cardinality(RenderedBy("openpyxl")) >= Cardinality(ImportIndexes)
              /\ \A i \in ImportIndexes :
                    \E j \in RenderedBy("openpyxl") : rlog[j].name = node[i].name

\* A save with the xlsxwriter engine has finished for a workbook whose
\* import is declared before its fresh sheet: the fresh sheet went through
\* xlsxwriter, the import through openpyxl.
C15_Witness ==
    /\ pc = "done" /\ engineSel = "xlsxwriter" /\ Len(node) = 2
    /\ node[1].kind = "import" /\ node[2].kind = "fresh"
    /\ rlog = <<Rendered("xlsxwriter", node[2].name), Rendered("openpyxl", node[1].name)>>
    /\ Len(XW) = 1

ImportSourcesExist ==
    \A i \in 1..Len(node) :
        node[i].kind = "import" =>
            \E k \in 1..Len(SourceSheets(node[i].source)) :
                SourceSheets(node[i].source)[k] = node[i].source_sheet

\* C17: a save of a workbook whose sheet names are pairwise distinct and
\* whose imports name existing source sheets never fails, with either
\* engine and on either path, and when it has finished a document with at
\* least one sheet has been written.
C17_SaveCompletes ==
    (InSave /\ Distinct(NodeNames(node)) /\ ImportSourcesExist)
        => /\ pc # "failed"
           /\ pc = "done" => (target.written /\ Len(target.sheets) > 0)

\* C18: a Table built from N >= 1 mapping-rows that all have exactly the
\* keys A, B, C is laid out as N + 1 rows of 3 cells each, and its first
\* row is the keys in the order the first row gives them.
C18_TableShape ==
    (L.kind = "table" /\ L.done
     /\ \A r \in 1..Len(L.rows) : KeysOf(L.rows[r]) = {"A", "B", "C"})
        => /\ Len(L.grid) = Len(L.rows) + 1
           /\ \A r \in 1..Len(L.grid) : Len(L.grid[r]) = 3
           /\ L.grid[1] = L.rows[1]

\* A table of two rows whose keys come in different orders was laid out.
C18_Witness ==
    /\ L.kind = "table" /\ L.done /\ Len(L.rows) = 2
    /\ L.rows[1] = <<"B", "A", "C">> /\ L.rows[2] = <<"C", "B", "A">>
    /\ L.grid[1] = <<"B", "A", "C">> /\ Len(L.grid) = 3

\* The number of rows a node takes, counted from its parts: a nested stack
\* takes the rows of its children and its gap between each two of them.
RECURSIVE Height(_), SumHeights(_)
Height(n) ==
    IF n.kind \in {"row", "space"} THEN 1
    ELSE IF n.kind = "table" THEN Len(n.rows) + 1
    ELSE SumHeights(n.children) + n.gap * (Len(n.children) - 1)

SumHeights(children) ==
    IF Len(children) = 0 THEN 0
    ELSE Height(Head(children)) + SumHeights(Tail(children))

\* Each child of a vertical stack takes the rows of its full height, there
\* are exactly gap rows between two consecutive children and they are
\* blank, and after the last child the cursor is on the row after it.
StackSpacing ==
    L.kind = "vstack" =>
        /\ \A i \in 1..Len(L.placed) :
              L.placed[i].last = L.placed[i].first + Height(L.children[i]) - 1
        /\ \A i \in 1..(Len(L.placed) - 1) :
              /\ L.placed[i + 1].first = L.placed[i].last + L.gap + 1
              /\ \A r \in (L.placed[i].last + 1)..(L.placed[i + 1].first - 1) :
                    r \notin L.occ
              /\ Cardinality((L.placed[i].last + 1)..(L.placed[i + 1].first - 1)) = L.gap
        /\ (Len(L.placed) = Len(L.children))
              => L.cursor = L.placed[Len(L.placed)].last + 1

DeclaredFresh == SelectSeq(node, LAMBDA sh : sh.kind = "fresh")
DeclaredImports == SelectSeq(node, LAMBDA sh : sh.kind = "import")

\* The order in which a hybrid save moves from step to step.
HybridOrder ==
    {<<"start", "phaseA">>, <<"phaseA", "phaseB">>, <<"phaseA", "failed">>,
     <<"phaseB", "phaseC">>, <<"phaseB", "failed">>, <<"phaseC", "done">>,
     <<"phaseC", "failed">>}

\* Where a hybrid save stands, read from what has been rendered and
\* loaded: before the imports every declared sheet has been rendered by
\* xlsxwriter, in declared order, and the destination is that output
\* written to memory and loaded again (an empty workbook when no sheet is
\* declared); the imports follow in declared order; the reordering comes
\* after the last import and the target is written after the reordering.
HybridSteps ==
    LET nf == Len(DeclaredFresh)
    IN  /\ pc = "phaseA" => (rlog = <<>> /\ XW = <<>> /\ ~target.written)
        /\ pc \in {"phaseB", "phaseC", "done"} =>
              /\ TitleSeq(XW) = [i \in 1..nf |-> T(DeclaredFresh[i].name)]
              /\ Len(rlog) >= nf /\ Len(rlog) <= Len(node)
              /\ \A i \in 1..nf :
                    rlog[i] = Rendered("xlsxwriter", DeclaredFresh[i].name)
              /\ \A j \in (nf + 1)..Len(rlog) :
                    rlog[j] = Rendered("openpyxl", DeclaredImports[j - nf].name)
        /\ (pc = "phaseB" /\ idx = 1) =>
              /\ \A src \in Sources : E.nloads[src] = 0
              /\ Len(rlog) = nf
              /\ E.wb = IF nf > 0 THEN load_workbook(Serialize(XW)) ELSE <<>>
        /\ pc = "phaseB" => ~target.written
        /\ pc = "phaseC" => (Len(rlog) = Len(node) /\ ~target.written)
        /\ pc = "done" => (Len(rlog) = Len(node) /\ target.written
                           /\ serializer = "openpyxl")

\* C20: in a hybrid save the steps come in this order, each once: the
\* declared sheets are rendered on xlsxwriter in declared order; that
\* output is written to memory and loaded as the destination; the imported
\* sheets are copied in declared order; the sheets are reordered; the
\* destination is written. No import starts before the last declared sheet
\* is rendered, wherever the import is declared.
C20_HybridStepOrder ==
    /\ [](path = "hybrid" => HybridSteps)
    /\ [][(path' = "hybrid" /\ pc' # pc) => <<pc, pc'>> \in HybridOrder]_vars
    /\ [][(path = "hybrid" /\ pc = "phaseB" /\ pc' = "phaseB")
            => (idx' = idx + 1 /\ Len(rlog') \in {Len(rlog), Len(rlog) + 1})]_vars

\* A hybrid save has finished for a workbook that declares an import
\* before two fresh sheets.
C20_Witness ==
    /\ pc = "done" /\ path = "hybrid" /\ Len(node) = 3
    /\ node[1].kind = "import" /\ node[2].kind = "fresh" /\ node[3].kind = "fresh"
    /\ rlog = <<Rendered("xlsxwriter", node[2].name),
                Rendered("xlsxwriter", node[3].name),
                Rendered("openpyxl", node[1].name)>>

\* A copy_sheet call has just failed: in engine mode the call is counted,
\* inside a save it ends the save.
CopyFailedStep ==
    /\ last'.op = "copy_sheet" /\ last'.res \in {"NotFound", "NameConflict"}
    /\ nops' = nops + 1 \/ (pc # "failed" /\ pc' = "failed")

\* C21: a copy_sheet that fails on a missing source sheet or on a taken
\* destination name leaves the engine's sheets, its template state (none,
\* or the source identity and the names to keep) and its current sheet as
\* they were, also when the destination was still empty (no template base
\* is started); a save after the failed call writes what a save before it
\* would have written, and a create_sheet after it gives the same workbook.
C21_FailedCopyLeavesEngine ==
    [][CopyFailedStep
         => /\ E'.wb = E.wb /\ E'.cur = E.cur
            /\ E'.tmpl = E.tmpl /\ E'.tid = E.tid /\ E'.keep = E.keep
            /\ save(E').res = save(E).res /\ save(E').doc = save(E).doc
            /\ \A n \in Names : create_sheet(E', n).wb = create_sheet(E, n).wb]_vars

\* The first call on a new engine was a copy_sheet of a sheet the source
\* lacks: the source was loaded, and the engine has no sheet and no
\* template state.
C21_Witness ==
    /\ pc = "engine" /\ nops = 1 /\ last.op = "copy_sheet" /\ last.res = "NotFound"
    /\ last.pre = "empty" /\ E.nloads[last.source] = 1
    /\ E.wb = <<>> /\ ~E.tmpl /\ E.cur = NoSheet

\* C22: an engine gets its template state at most once, in a successful
\* copy_sheet made while its workbook has no sheet, with the identity of
\* that call's source; the state is never dropped and its source identity
\* never changes; an engine that has sheets and no template state (its
\* first sheet was created, or it wraps a workbook with sheets) keeps its
\* sheets and never gets one.
C22_TemplateOnce ==
    [][/\ E.tmpl => (E'.tmpl /\ E'.tid = E.tid)
       /\ (~E.tmpl /\ E'.tmpl)
            => /\ last'.op = "copy_sheet" /\ last'.res = "ok"
               /\ Len(E.wb) = 0
               /\ E'.tid = _source_identity(last'.source)
       /\ (~E.tmpl /\ Len(E.wb) > 0) => (~E'.tmpl /\ Len(E'.wb) > 0)]_vars

\* An engine whose template base came from source p1 has then copied a
\* sheet from source b2: the template state still names p1.
C22_Witness ==
    /\ pc = "engine" /\ E.tmpl /\ E.tid = <<"path", "p1">>
    /\ E.nloads["p1"] = 1 /\ E.nloads["b2"] = 1
    /\ last.op = "copy_sheet" /\ last.source = "b2" /\ last.res = "ok"
    /\ last.pre = "template"

\* A copy_sheet call has just succeeded, in engine mode or inside a save.
CopyOkStep ==
    /\ last'.op = "copy_sheet" /\ last'.res = "ok"
    /\ \/ nops' = nops + 1
       \/ /\ pc \in {"render", "phaseB"} /\ pc' = pc /\ idx' = idx + 1
          /\ node[idx].kind = "import"

\* The destination as copy_sheet finds it when it resolves the sheet: the
\* deep copy of the source when the call starts the template base.
DestinationAtResolve(source) ==
    IF ~E.tmpl /\ Len(E.wb) = 0 THEN SourceBook(source) ELSE E.wb

\* The call takes the sheet from the destination: there is a template state
\* (the call's own included), its source identity is known and is that of
\* the call's source, and the destination has a sheet of the requested name.
FromDestination(source, sheet_name) ==
    /\ E.tmpl \/ Len(E.wb) = 0
    /\ _source_identity(source) # None
    /\ (IF E.tmpl THEN E.tid ELSE _source_identity(source)) = _source_identity(source)
    /\ T(sheet_name) \in TitlesOf(DestinationAtResolve(source))

\* C23: a successful copy_sheet adds one sheet at the end of the
\* destination. The sheet is a copy, inside the destination, of the
\* destination's sheet of the requested name (values, merges and styles)
\* exactly when a template state exists whose source identity is known and
\* equals that of the call's source and the destination has the name; in
\* every other case (another source, a stream, no template state) it has
\* the values and merges of the sheet of the source just loaded, and no
\* styles.
C23_CopySourceResolution ==
    [][CopyOkStep =>
         LET dest == DestinationAtResolve(last'.source)
             new == E'.wb[Len(E'.wb)]
         IN  /\ Len(E'.wb) = Len(dest) + 1
             /\ SubSeq(E'.wb, 1, Len(dest)) = dest
             /\ IF FromDestination(last'.source, last'.sheet)
                THEN new = [Get(dest, T(last'.sheet)) EXCEPT !.title = new.title]
                ELSE /\ new.vals = O(last'.source, last'.sheet)
                     /\ new.merges = O(last'.source, last'.sheet)
                     /\ new.style = Blank]_vars

\* On a template base made from p1, sheet A was copied from b2: the new
\* sheet has b2's values and no styles, although the destination has a
\* sheet A, p1's.
C23_Witness ==
    /\ pc = "engine" /\ E.tmpl /\ E.tid = <<"path", "p1">>
    /\ last.op = "copy_sheet" /\ last.res = "ok" /\ last.source = "b2"
    /\ last.sheet = "A" /\ T("A") \in TitlesOf(E.wb)
    /\ Get(E.wb, T("A")).vals = O("p1", "A")
    /\ Created.vals = O("b2", "A") /\ Created.style = Blank

\* The declared titles a workbook has, in declared order.
NamedIn(wb) ==
    SelectSeq([i \in 1..Len(node) |-> T(node[i].name)], LAMBDA t : t \in TitlesOf(wb))

\* C24: _reorder_sheets gives the same sheets in another order (as many
\* sheets, each sheet of before among them, titles still distinct): first
\* the sheets whose names are declared, in declared order, then the other
\* sheets in the order they had; a declared name the workbook lacks is
\* passed over; a second call changes nothing. (The declared names are
\* pairwise distinct, as they are whenever a save gets to reorder.)
C24_ReorderPermutes ==
    (pc = "reorder" /\ idx > 0) =>
        LET was == prev.doc
            named == NamedIn(was)
            declared == {T(node[i].name) : i \in 1..Len(node)}
        IN  /\ Len(mergedWb) = Len(was)
            /\ {mergedWb[i] : i \in 1..Len(mergedWb)} = {was[i] : i \in 1..Len(was)}
            /\ Distinct(TitleSeq(mergedWb))
            /\ TitleSeq(SubSeq(mergedWb, 1, Len(named))) = named
            /\ SubSeq(mergedWb, Len(named) + 1, Len(mergedWb))
                  = SelectSeq(was, LAMBDA ws : ws.title \notin declared)
            /\ idx = 2 => mergedWb = was

\* A workbook of three sheets was reordered twice for a declaration of
\* three names, one of which it lacks: the two declared sheets it has moved
\* to the front, in declared order, and the sheet not declared went last.
C24_Witness ==
    /\ pc = "reorder" /\ idx = 2 /\ NodeNames(node) = <<"X", "B", "A">>
    /\ TitleSeq(mergedWb) = <<T("X"), T("A"), [b |-> "A", n |-> 1]>>
    /\ prev.doc = mergedWb

Sides == {"top", "bottom", "left", "right"}

SideOf(border, side) ==
    CASE side = "top" -> border.top
      [] side = "bottom" -> border.bottom
      [] side = "left" -> border.left
      [] side = "right" -> border.right

FlaggedSides(style) ==
    {side \in Sides :
        CASE side = "top" -> style.border_top
          [] side = "bottom" -> style.border_bottom
          [] side = "left" -> style.border_left
          [] side = "right" -> style.border_right}

\* The style objects the latest write_cell gave its cell.
LastStyled == Get(E.wb, E.cur).cellstyle[last.cell]

\* C25: the border write_cell gives a cell, for a style with a border
\* style: all four sides when no per-edge flag is set, exactly the flagged
\* sides when one is; each side drawn has the border style and the style's
\* border colour, or the fallback colour of the call when the style has
\* none. For a style without a border style no border is built, whatever
\* the flags.
C25_BorderSides ==
    (last.op = "write_cell" /\ last.res = "ok") =>
        LET style == last.style
            border == LastStyled.objects.border
            drawn == IF FlaggedSides(style) = {} THEN Sides ELSE FlaggedSides(style)
            color == IF style.border_color # "" THEN style.border_color
                     ELSE last.fallback
        IN  IF style.border # ""
            THEN \A side \in Sides :
                    SideOf(border, side) =
                        IF side \in drawn
                        THEN [style |-> style.border, color |-> to_argb(color)]
                        ELSE NoObject
            ELSE border = NoObject

\* A cell was written with a thin border without a colour of its own,
\* flagged left and right, and the fallback colour gray: it has a gray
\* left and right side and no top and bottom side.
C25_Witness ==
    /\ last.op = "write_cell" /\ last.res = "ok" /\ last.fallback = "gray"
    /\ last.style.border = "thin" /\ last.style.border_color = ""
    /\ FlaggedSides(last.style) = {"left", "right"}
    /\ LastStyled.objects.border.left = [style |-> "thin", color |-> to_argb("gray")]
    /\ LastStyled.objects.border.top = NoObject

StylePairs == EffectiveStyles \X FallbackColors

\* What the style cache returns is what a construction without the cache
\* builds: for the call just made, and for whatever call comes next, in
\* every state of the cache; and two pairs with the same key are built
\* into the same objects.
CacheSound ==
    /\ (last.op = "write_cell" /\ last.res = "ok")
          => LastStyled.objects = build_styles(last.style, last.fallback)
    /\ \A p \in StylePairs :
          _get_cached_styles(E, p[1], p[2]).styles.objects = build_styles(p[1], p[2])
    /\ (nops = 0 /\ idx = 0) =>
          \A p, q \in StylePairs :
              cache_key(p[1], p[2]) = cache_key(q[1], q[2])
                  => build_styles(p[1], p[2]) = build_styles(q[1], q[2])

\* C30 as claimed: the cache is sound, and the key of a style is without
\* the fallback colour (the same for two fallback colours) only when the
\* style draws no border.
C30_AsClaimed ==
    /\ CacheSound
    /\ (last.op = "write_cell" /\ last.res = "ok"
        /\ cache_key(last.style, "red") = cache_key(last.style, "gray"))
          => LastStyled.objects.border = NoObject

\* C30 amended: the style cache is sound: for every pair of a style and a
\* fallback colour, the font, fill, alignment, border and number format the
\* cache returns equal what a construction from that pair builds, and two
\* pairs with the same key never differ in an attribute the construction
\* reads. The fallback colour is left out of the key exactly when the
\* construction does not use it: when the style draws no border, or draws
\* one in a border colour of its own.
C30_CacheSound ==
    /\ CacheSound
    /\ (last.op = "write_cell" /\ last.res = "ok") =>
          (cache_key(last.style, "red") = cache_key(last.style, "gray")
              <=> (LastStyled.objects.border = NoObject
                   \/ last.style.border_color # ""))

\* The second of two writes was served from the cache: one construction
\* for two calls. It asked for a border without a colour of its own and
\* the fallback colour red, a pair whose key is also that of the style
\* with the red border of its own.
C30_Witness ==
    /\ idx = 2 /\ last.op = "write_cell" /\ last.res = "ok"
    /\ Cardinality(E.style_cache) = 1
    /\ Constructions(E, cache_key(last.style, last.fallback)) = 1
    /\ last.style.border = "thin" /\ last.style.border_color = ""
    /\ last.fallback = "red"
    /\ cache_key(last.style, "red")
          = cache_key([last.style EXCEPT !.border_color = "red"], "gray")

\* A sizing call has just been made and has succeeded.
SizedStep(op) == idx' = idx + 1 /\ last'.op = op /\ last'.res = "ok"

\* C26: a set_column_width call gives the column of the current sheet the
\* width max(w, 8) for the width w requested, and a set_row_height call
\* gives the row exactly the height requested, whatever size the column or
\* row had (the later call wins); every other column and row of the sheet,
\* and every other sheet, keeps its size. No column a width was requested
\* for is ever narrower than 8.
C26_SizesLastWins ==
    /\ [](\A i \in 1..Len(E.wb) : \A c \in DOMAIN E.wb[i].dims.width :
              E.wb[i].dims.width[c] >= MinColumnWidth)
    /\ [][SizedStep("set_column_width") =>
            LET i == IndexOf(E.wb, E.cur)
            IN  /\ E'.wb[i].dims.width[last'.index] = Max(last'.size, MinColumnWidth)
                /\ \A c \in DOMAIN E.wb[i].dims.width \ {last'.index} :
                      E'.wb[i].dims.width[c] = E.wb[i].dims.width[c]
                /\ DOMAIN E'.wb[i].dims.width = DOMAIN E.wb[i].dims.width \cup {last'.index}
                /\ E'.wb[i].dims.height = E.wb[i].dims.height
                /\ \A j \in 1..Len(E.wb) : j # i => E'.wb[j] = E.wb[j]]_vars
    /\ [][SizedStep("set_row_height") =>
            LET i == IndexOf(E.wb, E.cur)
            IN  /\ E'.wb[i].dims.height[last'.index] = last'.size
                /\ \A r \in DOMAIN E.wb[i].dims.height \ {last'.index} :
                      E'.wb[i].dims.height[r] = E.wb[i].dims.height[r]
                /\ DOMAIN E'.wb[i].dims.height = DOMAIN E.wb[i].dims.height \cup {last'.index}
                /\ E'.wb[i].dims.width = E.wb[i].dims.width
                /\ \A j \in 1..Len(E.wb) : j # i => E'.wb[j] = E.wb[j]]_vars

\* Column 1 was just asked to be 5 wide and is 8 wide; column 2 keeps the
\* width 12 and row 1 the height 40 of the calls before.
C26_Witness ==
    /\ idx = 3 /\ last.op = "set_column_width" /\ last.res = "ok"
    /\ last.index = 1 /\ last.size = 5
    /\ Get(E.wb, E.cur).dims.width = (1 :> 8 @@ 2 :> 12)
    /\ Get(E.wb, E.cur).dims.height = (1 :> 40)

\* The names the caller has put into the destination: those of its
\* successful create_sheet and copy_sheet calls, and inside a save those of
\* the sheets rendered or imported so far.
CallerNames == {req[i] : i \in 1..Len(req)} \cup {rlog[i].name : i \in 1..Len(rlog)}

\* C27: copy_sheet fails on a taken destination name only when the caller
\* has put a sheet of that name into the destination; a sheet that is there
\* only because the source was deep-copied as the template base causes no
\* conflict.
C27_ConflictOnlyOnRequested ==
    (last.op = "copy_sheet" /\ last.res = "NameConflict") => last.name \in CallerNames

\* The document a finished call hands to the caller: the sheets written by
\* save, the sheets of the workbook to_openpyxl returns.
DocumentOf(at, written, engine_wb) == IF at = "returned" THEN engine_wb ELSE written

\* C28: for one workbook, to_openpyxl returns a document with the sheets,
\* in the order, of the document save(engine='openpyxl') writes, also when
\* the first declared sheet is an import.
C28_ToOpenpyxlAsSave ==
    (prev.n > 0 /\ engineSel = "openpyxl"
     /\ ((pc = "returned" /\ prev.pc = "done") \/ (pc = "done" /\ prev.pc = "returned")))
        => TitleSeq(DocumentOf(pc, target.sheets, E.wb)) = TitleSeq(prev.doc.sheets)

\* C29: on one engine under create_sheet, copy_sheet and save calls the
\* current sheet is unset or is the sheet created or copied last, a sheet
\* of the engine's workbook and of the document save writes, where a
\* write_cell then lands.
C29_CurrentSheetInDocument ==
    pc = "engine" =>
        \/ E.cur = NoSheet
        \/ /\ E.cur \in TitlesOf(E.wb)
           /\ E.cur \in TitlesOf(Pruned(E))
           /\ write_cell(E, 1, Written, Plain, "gray").res = "ok"

====
